---- MODULE Spec2Model ----
(***************************************************************************)
(* Frequent-itemset mining (Apriori, Eclat) and association-rule           *)
(* generation, modelled from src/src/algorithms/apriori.py and             *)
(* src/src/algorithms/eclat.py.                                            *)
(*                                                                         *)
(* Items are 1..NumItems, a transaction database is a function from the    *)
(* transaction ids 1..n to sets of items (the dict tid -> set(items)), and *)
(* supports, confidences, lifts and thresholds are exact rationals kept in *)
(* lowest terms, so that equal numbers are equal values; the rounding of   *)
(* Python's floats is not modelled.                                        *)
(*                                                                         *)
(* The functions are modelled twice: as operators that compute what a call *)
(* returns, applied by the Call actions, and statement by statement, with  *)
(* the locals of the running function in the state, by the Start, step and *)
(* Return actions.                                                         *)
(***************************************************************************)
EXTENDS Integers, Sequences, FiniteSets, TLC

\* ---------------------------------------------------------------- bounds
NumItems  == 3      \* distinct items a database may mention
MaxTrans  == 4      \* transactions in a database that is only mined
SessionTrans == 2   \* transactions in a database that is mined and turned into rules
ThreshDen == 2      \* thresholds are the multiples of 1/ThreshDen
MaxKeys   == 3      \* keys of a caller-supplied result map
SupDen    == 1      \* supports of a caller-supplied map: multiples of 1/SupDen
RunTrans  == 2      \* transactions in a database whose mining is followed step by step
AgainTrans == 1     \* transactions in a database that is mined again and again
MaxCalls  == 3      \* calls the caller makes one after the other

Items == 1..NumItems

\* ------------------------------------------------------------- rationals
Abs(x) == IF x < 0 THEN -x ELSE x

Max(a, b) == IF a >= b THEN a ELSE b

RECURSIVE GCD(_, _)
GCD(a, b) == IF b = 0 THEN a ELSE GCD(b, a % b)

\* n / d for d > 0, in lowest terms
Rat(n, d) ==
    LET g == GCD(Abs(n), d)
    IN  [num |-> n \div g, den |-> d \div g]

Zero == Rat(0, 1)

One == Rat(1, 1)

IsZero(x) == x.num = 0

Geq(x, y) == x.num * y.den >= y.num * x.den

Gt(x, y) == x.num * y.den > y.num * x.den

\* x / y for y # 0
Quot(x, y) ==
    IF y.num > 0 THEN Rat(x.num * y.den, x.den * y.num)
                 ELSE Rat(-(x.num * y.den), x.den * (-y.num))

\* math.ceil(a / b) for b > 0
Ceil(a, b) == -((-a) \div b)

InUnit(x) == Geq(x, Zero) /\ Geq(One, x)

\* the thresholds a caller may pass: -1/ThreshDen .. 1 + 1/ThreshDen
Thresholds == {Rat(n, ThreshDen) : n \in -1..(ThreshDen + 1)}

\* ------------------------------------------------------- maps and lists
EmptyMap == [x \in {} |-> Zero]

\* d[k] = v
Put(d, k, v) == [x \in DOMAIN d \cup {k} |-> IF x = k THEN v ELSE d[x]]

\* d.get(k, 0.0)
Get(d, k) == IF k \in DOMAIN d THEN d[k] ELSE Zero

\* the elements of a set in one iteration order
RECURSIVE ListOf(_)
ListOf(S) ==
    IF S = {} THEN <<>>
    ELSE LET x == CHOOSE y \in S : TRUE
         IN  <<x>> \o ListOf(S \ {x})

Range(q) == {q[i] : i \in DOMAIN q}

\* itertools.combinations(items, r): every r-subset once
combinations(items, r) == ListOf({A \in SUBSET items : Cardinality(A) = r})

\* ------------------------------------------------------------ databases
\* a set of items as a number, to list transactions in one fixed order
RECURSIVE Code(_)
Code(S) ==
    IF S = {} THEN 0
    ELSE LET i == CHOOSE j \in S : TRUE
         IN  2 ^ (i - 1) + Code(S \ {i})

\* the lists of exactly n transactions in ascending Code
RECURSIVE AscendingLists(_)
AscendingLists(n) ==
    IF n = 0 THEN {<<>>}
    ELSE UNION {{Append(T, S) : S \in {X \in SUBSET Items :
                                         n = 1 \/ Code(T[n - 1]) <= Code(X)}} :
                T \in AscendingLists(n - 1)}

\* Transaction ids and items are opaque keys: every database is, up to
\* renaming its ids and its items, one of these, whose transactions are
\* listed in ascending Code and whose items are numbered from the most
\* frequent to the least frequent.
Databases(most) ==
    {T \in UNION {AscendingLists(n) : n \in 0..most} :
        \A i \in Items : i > 1 =>
            Cardinality({t \in DOMAIN T : i - 1 \in T[t]})
                >= Cardinality({t \in DOMAIN T : i \in T[t]})}

OccurringItems(T) == UNION {T[t] : t \in DOMAIN T}

\* ---------------------------------------------------------------- apriori
\* outcome of a call: an exception, or a returned value
Raised(e) == [status |-> e, frequents |-> EmptyMap]

Returned(f) == [status |-> "ok", frequents |-> f]

NotCalled == [status |-> "none", frequents |-> EmptyMap]

item_counts(T) ==
    [i \in OccurringItems(T) |-> Cardinality({t \in DOMAIN T : i \in T[t]})]

generate_candidates(prev_frequents, k) ==
    {union \in {a \cup b : a \in prev_frequents, b \in prev_frequents} :
        /\ Cardinality(union) = k
        /\ \A subset \in Range(combinations(union, k - 1)) : subset \in prev_frequents}

\* the subset test written the wrong way round
count_supports_reversed(T, Ck) ==
    [c \in Ck |-> Cardinality({t \in DOMAIN T : T[t] \subseteq c})]

\* one scan of the database: a candidate hits the transactions it is a subset of
count_supports(T, Ck) ==
    [c \in Ck |-> Cardinality({t \in DOMAIN T : c \subseteq T[t]})]

\* the level loop keeping only candidates strictly above the threshold
RECURSIVE apriori_levels_strict(_, _, _, _, _)
apriori_levels_strict(T, min_support, Lk, k, frequents) ==
    IF Lk = {} THEN Returned(frequents)
    ELSE
        LET Ck == generate_candidates(Lk, k)
            n_trans == Len(T)
            support_counts == count_supports(T, Ck)
        IN  IF Ck # {} /\ n_trans = 0 THEN Raised("ZeroDivisionError")
            ELSE
                LET newLk == {c \in Ck : Gt(Rat(support_counts[c], n_trans), min_support)}
                    newFrequents ==
                        [c \in DOMAIN frequents \cup newLk |->
                            IF c \in newLk THEN Rat(support_counts[c], n_trans)
                                           ELSE frequents[c]]
                IN  apriori_levels_strict(T, min_support, newLk, k + 1, newFrequents)

\* the while loop of apriori, one level per unfolding; count / n_trans is
\* evaluated once per candidate, so it raises only when there is a candidate
RECURSIVE apriori_levels(_, _, _, _, _)
apriori_levels(T, min_support, Lk, k, frequents) ==
    IF Lk = {} THEN Returned(frequents)
    ELSE
        LET Ck == generate_candidates(Lk, k)
            n_trans == Len(T)
            support_counts == count_supports(T, Ck)
        IN  IF Ck # {} /\ n_trans = 0 THEN Raised("ZeroDivisionError")
            ELSE
                LET newLk == {c \in Ck : Geq(Rat(support_counts[c], n_trans), min_support)}
                    newFrequents ==
                        [c \in DOMAIN frequents \cup newLk |->
                            IF c \in newLk THEN Rat(support_counts[c], n_trans)
                                           ELSE frequents[c]]
                IN  apriori_levels(T, min_support, newLk, k + 1, newFrequents)

\* the first level with the comparison reversed
first_level_reversed(T, min_support) ==
    LET counts == item_counts(T)
        n_trans == Len(T)
        kept == {i \in DOMAIN counts : Geq(min_support, Rat(counts[i], n_trans))}
    IN  [fs \in {{i} : i \in kept} |-> Rat(counts[CHOOSE i \in fs : TRUE], n_trans)]

\* the frequent 1-itemsets with their supports (n_trans > 0)
first_level(T, min_support) ==
    LET counts == item_counts(T)
        n_trans == Len(T)
        kept == {i \in DOMAIN counts : Geq(Rat(counts[i], n_trans), min_support)}
    IN  [fs \in {{i} : i \in kept} |-> Rat(counts[CHOOSE i \in fs : TRUE], n_trans)]

\* apriori with the division by n_trans hoisted out of the loops
apriori_divides_first(T, min_support) ==
    IF Len(T) = 0 THEN Raised("ZeroDivisionError")
    ELSE LET frequents == first_level(T, min_support)
         IN  apriori_levels(T, min_support, DOMAIN frequents, 2, frequents)

\* count / n_trans is evaluated once per counted item
apriori(T, min_support) ==
    IF DOMAIN item_counts(T) # {} /\ Len(T) = 0 THEN Raised("ZeroDivisionError")
    ELSE LET frequents == first_level(T, min_support)
         IN  apriori_levels(T, min_support, DOMAIN frequents, 2, frequents)

\* ------------------------------------------------------------------ eclat
build_vertical_representation(T) ==
    [item \in OccurringItems(T) |-> {tid \in DOMAIN T : item \in T[tid]}]

\* Can vertical.items() have the order o, given that the items in seen already
\* head it?  The scan takes the transactions one at a time, in the order of the
\* caller's dict, and a transaction appends the items it is the first to
\* mention, in the iteration order of its set.
RECURSIVE InsertionOrder(_, _, _)
InsertionOrder(T, o, seen) ==
    \/ seen = OccurringItems(T)
    \/ \E tid \in DOMAIN T :
          LET new == T[tid] \ seen
              n == Cardinality(seen)
          IN  /\ new # {}
              /\ {o[i] : i \in (n + 1)..(n + Cardinality(new))} = new
              /\ InsertionOrder(T, o, seen \cup new)

\* the orders vertical.items() can have, over the orders of the caller's dict
VerticalOrders(T) ==
    LET its == OccurringItems(T)
        n == Cardinality(its)
    IN  {o \in [1..n -> its] :
            /\ \A i, j \in 1..n : i # j => o[i] # o[j]
            /\ InsertionOrder(T, o, {})}

\* the working list built from the other TID-sets without intersecting them
RECURSIVE eclat_new_items_tids_other(_, _, _)
eclat_new_items_tids_other(items_tids, tids, min_support_count) ==
    IF items_tids = <<>> THEN <<>>
    ELSE
        LET other_tids == Head(items_tids)[2]
            tail == eclat_new_items_tids_other(Tail(items_tids), tids, min_support_count)
        IN  IF Cardinality(other_tids) >= min_support_count
            THEN << <<Head(items_tids)[1], other_tids>> >> \o tail
            ELSE tail

\* for other_item, other_tids in items_tids: keep the frequent intersections
RECURSIVE eclat_new_items_tids(_, _, _)
eclat_new_items_tids(items_tids, tids, min_support_count) ==
    IF items_tids = <<>> THEN <<>>
    ELSE
        LET inter == tids \cap Head(items_tids)[2]
            tail == eclat_new_items_tids(Tail(items_tids), tids, min_support_count)
        IN  IF Cardinality(inter) >= min_support_count
            THEN << <<Head(items_tids)[1], inter>> >> \o tail
            ELSE tail

\* results is the dict shared by all the calls; an exception unwinds them all
RECURSIVE eclat_recursive(_, _, _, _, _)
eclat_recursive(prefix, items_tids, min_support_count, results, total_transactions) ==
    IF results.status # "ok" \/ items_tids = <<>> THEN results
    ELSE
        LET popped == items_tids[Len(items_tids)]
            rest == SubSeq(items_tids, 1, Len(items_tids) - 1)
            item == popped[1]
            tids == popped[2]
            new_itemset == prefix \cup {item}
            support_count == Cardinality(tids)
        IN  IF support_count >= min_support_count
            THEN
                IF total_transactions = 0 THEN Raised("ZeroDivisionError")
                ELSE
                    LET support == Rat(support_count, total_transactions)
                        recorded == Returned(Put(results.frequents, new_itemset, support))
                        new_items_tids ==
                            eclat_new_items_tids(rest, tids, min_support_count)
                        after == eclat_recursive(new_itemset, new_items_tids,
                                                 min_support_count, recorded,
                                                 total_transactions)
                    IN  eclat_recursive(prefix, rest, min_support_count, after,
                                        total_transactions)
            ELSE eclat_recursive(prefix, rest, min_support_count, results,
                                 total_transactions)

\* the occurrence threshold without its floor of 1
min_sup_count_nofloor(min_support, n_trans) ==
    Ceil(min_support.num * n_trans, min_support.den)

min_sup_count(min_support, n_trans) ==
    Max(1, Ceil(min_support.num * n_trans, min_support.den))

\* order: the iteration order of vertical.items()
eclat(T, min_support, order) ==
    LET vertical == build_vertical_representation(T)
        n_trans == Len(T)
        items_tids == [i \in 1..Len(order) |-> <<order[i], vertical[order[i]]>>]
    IN  eclat_recursive({}, items_tids, min_sup_count(min_support, n_trans),
                        Returned(EmptyMap), n_trans)

\* ------------------------------------------------------- rule generation
RulesReturned(r) == [status |-> "ok", rules |-> r]

RulesRaised(e) == [status |-> e, rules |-> <<>>]

\* the confidence test with > for >=
rule_for_antecedent_strict(frequent_itemsets, min_confidence, itemset, antecedent, out) ==
    LET consequent == itemset \ antecedent
        sup_xy == frequent_itemsets[itemset]
        sup_x == Get(frequent_itemsets, antecedent)
        sup_y == Get(frequent_itemsets, consequent)
    IN  IF IsZero(sup_x) \/ IsZero(sup_y) THEN out
        ELSE
            LET conf == Quot(sup_xy, sup_x)
            IN  IF Gt(conf, min_confidence)
                THEN RulesReturned(Append(out.rules,
                        [antecedent |-> antecedent,
                         consequent |-> consequent,
                         support    |-> sup_xy,
                         confidence |-> conf,
                         lift       |-> Quot(conf, sup_y)]))
                ELSE out

\* body of the innermost loop: one antecedent of one itemset
rule_for_antecedent(frequent_itemsets, min_confidence, itemset, antecedent, out) ==
    LET consequent == itemset \ antecedent
        sup_xy == frequent_itemsets[itemset]
        sup_x == Get(frequent_itemsets, antecedent)
        sup_y == Get(frequent_itemsets, consequent)
    IN  IF IsZero(sup_x) \/ IsZero(sup_y) THEN out
        ELSE
            LET conf == Quot(sup_xy, sup_x)
            IN  IF Geq(conf, min_confidence)
                THEN RulesReturned(Append(out.rules,
                        [antecedent |-> antecedent,
                         consequent |-> consequent,
                         support    |-> sup_xy,
                         confidence |-> conf,
                         lift       |-> Quot(conf, sup_y)]))
                ELSE out

\* for antecedent_tuple in combinations(items, r)
RECURSIVE rules_for_antecedents(_, _, _, _, _)
rules_for_antecedents(frequent_itemsets, min_confidence, itemset, antecedents, out) ==
    IF out.status # "ok" \/ antecedents = <<>> THEN out
    ELSE rules_for_antecedents(frequent_itemsets, min_confidence, itemset,
            Tail(antecedents),
            rule_for_antecedent(frequent_itemsets, min_confidence, itemset,
                                Head(antecedents), out))

\* for r in range(first, last + 1)
RECURSIVE rules_for_sizes(_, _, _, _, _, _)
rules_for_sizes(frequent_itemsets, min_confidence, itemset, r, last, out) ==
    IF out.status # "ok" \/ r > last THEN out
    ELSE rules_for_sizes(frequent_itemsets, min_confidence, itemset, r + 1, last,
            rules_for_antecedents(frequent_itemsets, min_confidence, itemset,
                                  combinations(itemset, r), out))

\* antecedent sizes 0..len(items) instead of 1..len(items)-1
rules_for_itemset_allsizes(frequent_itemsets, min_confidence, itemset, out) ==
    IF Cardinality(itemset) < 2 THEN out
    ELSE rules_for_sizes(frequent_itemsets, min_confidence, itemset,
                         0, Cardinality(itemset), out)

\* body of the outer loop: one key of the map
rules_for_itemset(frequent_itemsets, min_confidence, itemset, out) ==
    IF Cardinality(itemset) < 2 THEN out
    ELSE rules_for_sizes(frequent_itemsets, min_confidence, itemset,
                         1, Cardinality(itemset) - 1, out)

\* for itemset, sup_xy in frequent_itemsets.items()
RECURSIVE rules_for_itemsets(_, _, _, _)
rules_for_itemsets(frequent_itemsets, min_confidence, keys, out) ==
    IF out.status # "ok" \/ keys = <<>> THEN out
    ELSE rules_for_itemsets(frequent_itemsets, min_confidence, Tail(keys),
            rules_for_itemset(frequent_itemsets, min_confidence, Head(keys), out))

generate_association_rules(frequent_itemsets, min_confidence) ==
    rules_for_itemsets(frequent_itemsets, min_confidence,
                       ListOf(DOMAIN frequent_itemsets), RulesReturned(<<>>))

generate_association_rules_eclat(frequent_itemsets, min_confidence) ==
    generate_association_rules(frequent_itemsets, min_confidence)

\* ------------------------------------------------------------------ state
VARIABLES
    transactions,      \* the caller's transaction database
    min_support,       \* the threshold passed to the engines
    supplied,          \* a result map built by the caller
    apriori_ret,       \* outcome of apriori(transactions, min_support)
    eclat_ret,         \* outcome of eclat(transactions, min_support)
    rules_ret,         \* the call of generate_association_rules
    rules_eclat_ret    \* the call of generate_association_rules_eclat

\* one call followed statement by statement: the locals of the function that
\* is running; they are gone once it has returned or raised
VARIABLES
    calls_left,        \* calls the caller may still start
    running,           \* the call in progress, or the last one that ended
    Lk,                \* apriori: the frequent itemsets of the last level
    k_level,           \* apriori: k, the size of the next candidates
    frequents,         \* apriori: frequents
    Ck,                \* apriori: the candidates of the pass
    support_counts,    \* apriori: their counts
    apriori_at,        \* apriori: the statement of the while loop to run next
    vertical,          \* eclat: the vertical index
    stack,             \* eclat: the activations of _eclat_recursive
    results,           \* eclat: the dict shared by the activations
    writes,            \* eclat: how often results[new_itemset] was assigned
    rules,             \* generate_association_rules: rules
    keys_left          \* generate_association_rules: keys still to visit

run_vars == <<calls_left, running, Lk, k_level, frequents,
              Ck, support_counts, apriori_at,
              vertical, stack, results, writes, rules, keys_left>>

vars == <<transactions, min_support, supplied,
          apriori_ret, eclat_ret, rules_ret, rules_eclat_ret, run_vars>>

\* a call followed step by step: its arguments, its position and its outcome;
\* input is the map handed to the rule generator
NoCall ==
    [fn |-> "none", threshold |-> Zero, input |-> EmptyMap, status |-> "none",
     frequents |-> EmptyMap, rules |-> <<>>]

\* nothing is followed step by step
NoRun ==
    /\ calls_left = 0
    /\ running = NoCall
    /\ Lk = {}
    /\ k_level = 0
    /\ frequents = EmptyMap
    /\ Ck = {}
    /\ support_counts = EmptyMap
    /\ apriori_at = "none"
    /\ vertical = EmptyMap
    /\ stack = <<>>
    /\ results = EmptyMap
    /\ writes = EmptyMap
    /\ rules = <<>>
    /\ keys_left = <<>>

\* a call of the rule generator: its arguments and its outcome
RulesNotCalled ==
    [status |-> "none", frequent_itemsets |-> EmptyMap,
     min_confidence |-> Zero, rules |-> <<>>]

RulesCall(frequent_itemsets, min_confidence, out) ==
    [status |-> out.status, frequent_itemsets |-> frequent_itemsets,
     min_confidence |-> min_confidence, rules |-> out.rules]

\* the result maps a caller can build by hand: any keys, any supports
SuppliedSupports == {Rat(n, SupDen) : n \in 0..SupDen}

\* up to renaming the items, item i is in at least as many keys as item i + 1
SuppliedKeys ==
    {K \in SUBSET (SUBSET Items) :
        /\ Cardinality(K) <= MaxKeys
        /\ \A i \in Items : i > 1 =>
              Cardinality({k \in K : i - 1 \in k}) >= Cardinality({k \in K : i \in k})}

SuppliedMaps == UNION {[K -> SuppliedSupports] : K \in SuppliedKeys}

\* the confidence threshold is one setting, shared by the rule generator's calls
SameSetting(min_confidence) ==
    /\ rules_ret.status # "none" => min_confidence = rules_ret.min_confidence
    /\ rules_eclat_ret.status # "none" => min_confidence = rules_eclat_ret.min_confidence

\* ------------------- mining a database and generating its rules (Spec)
Init ==
    /\ transactions \in Databases(SessionTrans)
    /\ min_support \in Thresholds
    /\ supplied = EmptyMap
    /\ apriori_ret = NotCalled
    /\ eclat_ret = NotCalled
    /\ rules_ret = RulesNotCalled
    /\ rules_eclat_ret = RulesNotCalled
    /\ NoRun

CallApriori ==
    /\ apriori_ret.status = "none"
    /\ apriori_ret' = apriori(transactions, min_support)
    /\ UNCHANGED <<transactions, min_support, supplied,
                   eclat_ret, rules_ret, rules_eclat_ret,
                   run_vars>>

CallEclat ==
    /\ eclat_ret.status = "none"
    /\ \E order \in VerticalOrders(transactions) :
          eclat_ret' = eclat(transactions, min_support, order)
    /\ UNCHANGED <<transactions, min_support, supplied,
                   apriori_ret, rules_ret, rules_eclat_ret,
                   run_vars>>

\* main.py: rules_a = generate_association_rules(frequents_a, min_confidence)
CallRulesApriori ==
    /\ apriori_ret.status = "ok"
    /\ rules_ret.status = "none"
    /\ \E min_confidence \in Thresholds :
          /\ SameSetting(min_confidence)
          /\ rules_ret' = RulesCall(apriori_ret.frequents, min_confidence,
              generate_association_rules(apriori_ret.frequents, min_confidence))
    /\ UNCHANGED <<transactions, min_support, supplied,
                   apriori_ret, eclat_ret, rules_eclat_ret,
                   run_vars>>

\* main.py: rules_e = generate_association_rules_eclat(frequents_e, min_confidence)
CallRulesEclat ==
    /\ eclat_ret.status = "ok"
    /\ rules_eclat_ret.status = "none"
    /\ \E min_confidence \in Thresholds :
          /\ SameSetting(min_confidence)
          /\ rules_eclat_ret' = RulesCall(eclat_ret.frequents, min_confidence,
              generate_association_rules_eclat(eclat_ret.frequents, min_confidence))
    /\ UNCHANGED <<transactions, min_support, supplied,
                   apriori_ret, eclat_ret, rules_ret,
                   run_vars>>

Next ==
    \/ CallApriori
    \/ CallEclat
    \/ CallRulesApriori
    \/ CallRulesEclat

Spec == Init /\ [][Next]_vars

\* ------------------------------- mining a larger database (SpecMine)
InitMine ==
    /\ transactions \in Databases(MaxTrans)
    /\ min_support \in Thresholds
    /\ supplied = EmptyMap
    /\ apriori_ret = NotCalled
    /\ eclat_ret = NotCalled
    /\ rules_ret = RulesNotCalled
    /\ rules_eclat_ret = RulesNotCalled
    /\ NoRun

NextMine ==
    \/ CallApriori
    \/ CallEclat

SpecMine == InitMine /\ [][NextMine]_vars

\* ------------------------- rules from a caller-supplied map (SpecRules)
InitRules ==
    /\ transactions = <<>>
    /\ min_support = Zero
    /\ supplied \in SuppliedMaps
    /\ apriori_ret = NotCalled
    /\ eclat_ret = NotCalled
    /\ rules_ret = RulesNotCalled
    /\ rules_eclat_ret = RulesNotCalled
    /\ NoRun

CallRulesSupplied ==
    /\ rules_ret.status = "none"
    /\ \E min_confidence \in Thresholds :
          /\ SameSetting(min_confidence)
          /\ rules_ret' = RulesCall(supplied, min_confidence,
              generate_association_rules(supplied, min_confidence))
    /\ UNCHANGED <<transactions, min_support, supplied,
                   apriori_ret, eclat_ret, rules_eclat_ret,
                   run_vars>>

CallRulesEclatSupplied ==
    /\ rules_eclat_ret.status = "none"
    /\ \E min_confidence \in Thresholds :
          /\ SameSetting(min_confidence)
          /\ rules_eclat_ret' = RulesCall(supplied, min_confidence,
              generate_association_rules_eclat(supplied, min_confidence))
    /\ UNCHANGED <<transactions, min_support, supplied,
                   apriori_ret, eclat_ret, rules_ret,
                   run_vars>>

NextRules ==
    \/ CallRulesSupplied
    \/ CallRulesEclatSupplied

SpecRules == InitRules /\ [][NextRules]_vars

\* ------- the engines and the rules of one of their results (SpecMono)
NextMono ==
    \/ CallApriori
    \/ CallEclat
    \/ CallRulesApriori

SpecMono == Init /\ [][NextMono]_vars

\* --------- the calls statement by statement (SpecRun, SpecSession)
\* a call that has just been entered
Begin(fn, threshold, input) ==
    [fn |-> fn, threshold |-> threshold, input |-> input, status |-> "running",
     frequents |-> EmptyMap, rules |-> <<>>]

\* the running call once it has returned f / r or raised
Ended(status, f, r) ==
    [running EXCEPT !.status = status, !.frequents = f, !.rules = r]

\* main.py calls the functions one after the other
CanStart == calls_left > 0 /\ running.status # "running"

\* apriori.py 42-63: the item counts, the first level, k = 2
StartApriori ==
    /\ CanStart
    /\ calls_left' = calls_left - 1
    /\ \E s \in Thresholds :
          IF DOMAIN item_counts(transactions) # {} /\ Len(transactions) = 0
          THEN /\ running' = [Begin("apriori", s, EmptyMap)
                                 EXCEPT !.status = "ZeroDivisionError"]
               /\ UNCHANGED <<Lk, k_level, frequents, apriori_at>>
          ELSE /\ running' = Begin("apriori", s, EmptyMap)
               /\ frequents' = first_level(transactions, s)
               /\ Lk' = DOMAIN frequents'
               /\ k_level' = 2
               /\ apriori_at' = "while"
    /\ UNCHANGED <<transactions, min_support, supplied,
                   apriori_ret, eclat_ret, rules_ret, rules_eclat_ret,
                   Ck, support_counts,
                   vertical, stack, results, writes, rules, keys_left>>

\* apriori.py 64-65: Lk is not empty, the candidates of size k are generated
AprioriCandidates ==
    /\ running.fn = "apriori"
    /\ running.status = "running"
    /\ apriori_at = "while"
    /\ Lk # {}
    /\ Ck' = generate_candidates(Lk, k_level)
    /\ apriori_at' = "scan"
    /\ UNCHANGED <<transactions, min_support, supplied,
                   apriori_ret, eclat_ret, rules_ret, rules_eclat_ret,
                   calls_left, running, Lk, k_level, frequents, support_counts,
                   vertical, stack, results, writes, rules, keys_left>>

\* apriori.py 66-71: the scan of the database that counts the candidates
AprioriScan ==
    /\ running.fn = "apriori"
    /\ running.status = "running"
    /\ apriori_at = "scan"
    /\ support_counts' = count_supports(transactions, Ck)
    /\ apriori_at' = "filter"
    /\ UNCHANGED <<transactions, min_support, supplied,
                   apriori_ret, eclat_ret, rules_ret, rules_eclat_ret,
                   calls_left, running, Lk, k_level, frequents, Ck,
                   vertical, stack, results, writes, rules, keys_left>>

\* apriori.py 73-80: the candidates that reach the threshold are the new level;
\* count / n_trans raises when there is a candidate and n_trans = 0
AprioriFilter ==
    /\ running.fn = "apriori"
    /\ running.status = "running"
    /\ apriori_at = "filter"
    /\ IF DOMAIN support_counts # {} /\ Len(transactions) = 0
       THEN /\ running' = Ended("ZeroDivisionError", EmptyMap, <<>>)
            /\ Lk' = {}
            /\ k_level' = 0
            /\ frequents' = EmptyMap
            /\ Ck' = {}
            /\ support_counts' = EmptyMap
            /\ apriori_at' = "none"
       ELSE /\ Lk' = {c \in DOMAIN support_counts :
                        Geq(Rat(support_counts[c], Len(transactions)),
                            running.threshold)}
            /\ frequents' =
                  [c \in DOMAIN frequents \cup Lk' |->
                      IF c \in Lk' THEN Rat(support_counts[c], Len(transactions))
                                   ELSE frequents[c]]
            /\ k_level' = k_level + 1
            /\ apriori_at' = "while"
            /\ UNCHANGED <<running, Ck, support_counts>>
    /\ UNCHANGED <<transactions, min_support, supplied,
                   apriori_ret, eclat_ret, rules_ret, rules_eclat_ret,
                   calls_left, vertical, stack, results, writes, rules, keys_left>>

\* apriori.py 64, 82-83: the last level is empty, frequents is returned
AprioriReturn ==
    /\ running.fn = "apriori"
    /\ running.status = "running"
    /\ apriori_at = "while"
    /\ Lk = {}
    /\ running' = Ended("ok", frequents, <<>>)
    /\ k_level' = 0
    /\ frequents' = EmptyMap
    /\ Ck' = {}
    /\ support_counts' = EmptyMap
    /\ apriori_at' = "none"
    /\ UNCHANGED <<transactions, min_support, supplied,
                   apriori_ret, eclat_ret, rules_ret, rules_eclat_ret,
                   calls_left, Lk, vertical, stack, results, writes, rules, keys_left>>

\* an activation of _eclat_recursive: its arguments
Activation(prefix, items_tids, min_support_count, total_transactions) ==
    [prefix |-> prefix, items_tids |-> items_tids,
     min_support_count |-> min_support_count,
     total_transactions |-> total_transactions]

\* the scan that builds the index takes the items out of the caller's sets
StartEclat_consumes ==
    /\ CanStart
    /\ calls_left' = calls_left - 1
    /\ \E s \in Thresholds, order \in VerticalOrders(transactions) :
          LET built == build_vertical_representation(transactions)
              n_trans == Len(transactions)
              items_tids == [i \in 1..Len(order) |-> <<order[i], built[order[i]]>>]
          IN  /\ running' = Begin("eclat", s, EmptyMap)
              /\ vertical' = built
              /\ results' = EmptyMap
              /\ writes' = EmptyMap
              /\ stack' = <<Activation({}, items_tids,
                                       min_sup_count(s, n_trans), n_trans)>>
    /\ transactions' = [tid \in DOMAIN transactions |-> {}]
    /\ UNCHANGED <<min_support, supplied,
                   apriori_ret, eclat_ret, rules_ret, rules_eclat_ret,
                   Lk, k_level, frequents,
                   Ck, support_counts, apriori_at, rules, keys_left>>

\* results is not a fresh dict but the one the last call of eclat returned
StartEclat_keeps_results ==
    /\ CanStart
    /\ calls_left' = calls_left - 1
    /\ \E s \in Thresholds, order \in VerticalOrders(transactions) :
          LET built == build_vertical_representation(transactions)
              n_trans == Len(transactions)
              items_tids == [i \in 1..Len(order) |-> <<order[i], built[order[i]]>>]
          IN  /\ running' = Begin("eclat", s, EmptyMap)
              /\ vertical' = built
              /\ results' = IF running.fn = "eclat" THEN running.frequents ELSE EmptyMap
              /\ writes' = EmptyMap
              /\ stack' = <<Activation({}, items_tids,
                                       min_sup_count(s, n_trans), n_trans)>>
    /\ UNCHANGED <<transactions, min_support, supplied,
                   apriori_ret, eclat_ret, rules_ret, rules_eclat_ret,
                   Lk, k_level, frequents,
                   Ck, support_counts, apriori_at, rules, keys_left>>

\* eclat.py 73-81: the index, the threshold, the first working list, results
StartEclat ==
    /\ CanStart
    /\ calls_left' = calls_left - 1
    /\ \E s \in Thresholds, order \in VerticalOrders(transactions) :
          LET built == build_vertical_representation(transactions)
              n_trans == Len(transactions)
              items_tids == [i \in 1..Len(order) |-> <<order[i], built[order[i]]>>]
          IN  /\ running' = Begin("eclat", s, EmptyMap)
              /\ vertical' = built
              /\ results' = EmptyMap
              /\ writes' = EmptyMap
              /\ stack' = <<Activation({}, items_tids,
                                       min_sup_count(s, n_trans), n_trans)>>
    /\ UNCHANGED <<transactions, min_support, supplied,
                   apriori_ret, eclat_ret, rules_ret, rules_eclat_ret,
                   Lk, k_level, frequents,
                   Ck, support_counts, apriori_at, rules, keys_left>>

\* the pair is read without pop() and removed only if it is frequent
EclatPop_keeps_infrequent ==
    /\ running.fn = "eclat"
    /\ running.status = "running"
    /\ stack # <<>>
    /\ stack[Len(stack)].items_tids # <<>>
    /\ LET top == stack[Len(stack)]
           popped == top.items_tids[Len(top.items_tids)]
           rest == SubSeq(top.items_tids, 1, Len(top.items_tids) - 1)
           item == popped[1]
           tids == popped[2]
           new_itemset == top.prefix \cup {item}
           support_count == Cardinality(tids)
           shrunk == [stack EXCEPT ![Len(stack)].items_tids = rest]
       IN  IF support_count >= top.min_support_count
           THEN IF top.total_transactions = 0
                THEN /\ running' = Ended("ZeroDivisionError", EmptyMap, <<>>)
                     /\ stack' = <<>>
                     /\ vertical' = EmptyMap
                     /\ results' = EmptyMap
                     /\ UNCHANGED writes
                ELSE /\ results' = Put(results, new_itemset,
                                       Rat(support_count, top.total_transactions))
                     /\ writes' = Put(writes, new_itemset,
                                      IF new_itemset \in DOMAIN writes
                                      THEN writes[new_itemset] + 1 ELSE 1)
                     /\ stack' = Append(shrunk,
                           Activation(new_itemset,
                                      eclat_new_items_tids(rest, tids,
                                                           top.min_support_count),
                                      top.min_support_count,
                                      top.total_transactions))
                     /\ UNCHANGED <<running, vertical>>
           ELSE /\ stack' = stack
                /\ UNCHANGED <<running, vertical, results, writes>>
    /\ UNCHANGED <<transactions, min_support, supplied,
                   apriori_ret, eclat_ret, rules_ret, rules_eclat_ret,
                   calls_left, Lk, k_level, frequents,
                   Ck, support_counts, apriori_at, rules, keys_left>>

\* an infrequent pair ends the loop: the pairs before it are dropped
EclatPop_stops_at_infrequent ==
    /\ running.fn = "eclat"
    /\ running.status = "running"
    /\ stack # <<>>
    /\ stack[Len(stack)].items_tids # <<>>
    /\ LET top == stack[Len(stack)]
           popped == top.items_tids[Len(top.items_tids)]
           rest == SubSeq(top.items_tids, 1, Len(top.items_tids) - 1)
           item == popped[1]
           tids == popped[2]
           new_itemset == top.prefix \cup {item}
           support_count == Cardinality(tids)
           shrunk == [stack EXCEPT ![Len(stack)].items_tids = rest]
       IN  IF support_count >= top.min_support_count
           THEN IF top.total_transactions = 0
                THEN /\ running' = Ended("ZeroDivisionError", EmptyMap, <<>>)
                     /\ stack' = <<>>
                     /\ vertical' = EmptyMap
                     /\ results' = EmptyMap
                     /\ UNCHANGED writes
                ELSE /\ results' = Put(results, new_itemset,
                                       Rat(support_count, top.total_transactions))
                     /\ writes' = Put(writes, new_itemset,
                                      IF new_itemset \in DOMAIN writes
                                      THEN writes[new_itemset] + 1 ELSE 1)
                     /\ stack' = Append(shrunk,
                           Activation(new_itemset,
                                      eclat_new_items_tids(rest, tids,
                                                           top.min_support_count),
                                      top.min_support_count,
                                      top.total_transactions))
                     /\ UNCHANGED <<running, vertical>>
           ELSE /\ stack' = [stack EXCEPT ![Len(stack)].items_tids = <<>>]
                /\ UNCHANGED <<running, vertical, results, writes>>
    /\ UNCHANGED <<transactions, min_support, supplied,
                   apriori_ret, eclat_ret, rules_ret, rules_eclat_ret,
                   calls_left, Lk, k_level, frequents,
                   Ck, support_counts, apriori_at, rules, keys_left>>

\* eclat.py 39-60: one pass of the while loop of the innermost activation,
\* up to the entry of the activation it calls
EclatPop ==
    /\ running.fn = "eclat"
    /\ running.status = "running"
    /\ stack # <<>>
    /\ stack[Len(stack)].items_tids # <<>>
    /\ LET top == stack[Len(stack)]
           popped == top.items_tids[Len(top.items_tids)]
           rest == SubSeq(top.items_tids, 1, Len(top.items_tids) - 1)
           item == popped[1]
           tids == popped[2]
           new_itemset == top.prefix \cup {item}
           support_count == Cardinality(tids)
           shrunk == [stack EXCEPT ![Len(stack)].items_tids = rest]
       IN  IF support_count >= top.min_support_count
           THEN IF top.total_transactions = 0
                THEN /\ running' = Ended("ZeroDivisionError", EmptyMap, <<>>)
                     /\ stack' = <<>>
                     /\ vertical' = EmptyMap
                     /\ results' = EmptyMap
                     /\ UNCHANGED writes
                ELSE /\ results' = Put(results, new_itemset,
                                       Rat(support_count, top.total_transactions))
                     /\ writes' = Put(writes, new_itemset,
                                      IF new_itemset \in DOMAIN writes
                                      THEN writes[new_itemset] + 1 ELSE 1)
                     /\ stack' = Append(shrunk,
                           Activation(new_itemset,
                                      eclat_new_items_tids(rest, tids,
                                                           top.min_support_count),
                                      top.min_support_count,
                                      top.total_transactions))
                     /\ UNCHANGED <<running, vertical>>
           ELSE /\ stack' = shrunk
                /\ UNCHANGED <<running, vertical, results, writes>>
    /\ UNCHANGED <<transactions, min_support, supplied,
                   apriori_ret, eclat_ret, rules_ret, rules_eclat_ret,
                   calls_left, Lk, k_level, frequents,
                   Ck, support_counts, apriori_at, rules, keys_left>>

\* eclat.py 39: the working list is empty, the activation returns to its caller
EclatUnwind ==
    /\ running.fn = "eclat"
    /\ running.status = "running"
    /\ stack # <<>>
    /\ stack[Len(stack)].items_tids = <<>>
    /\ stack' = SubSeq(stack, 1, Len(stack) - 1)
    /\ UNCHANGED <<transactions, min_support, supplied,
                   apriori_ret, eclat_ret, rules_ret, rules_eclat_ret,
                   calls_left, running, Lk, k_level, frequents,
                   Ck, support_counts, apriori_at,
                   vertical, results, writes, rules, keys_left>>

\* eclat.py 82-83: the outermost activation has returned, results is returned
EclatReturn ==
    /\ running.fn = "eclat"
    /\ running.status = "running"
    /\ stack = <<>>
    /\ running' = Ended("ok", results, <<>>)
    /\ vertical' = EmptyMap
    /\ results' = EmptyMap
    /\ UNCHANGED <<transactions, min_support, supplied,
                   apriori_ret, eclat_ret, rules_ret, rules_eclat_ret,
                   calls_left, Lk, k_level, frequents,
                   Ck, support_counts, apriori_at,
                   stack, writes, rules, keys_left>>

\* the maps the caller can hand to the rule generator: its own, the one an
\* engine has just returned (main.py 236-237, 245-246), or the same one again
RuleInputs ==
    {supplied}
        \cup (IF running.status = "ok" /\ running.fn \in {"apriori", "eclat"}
              THEN {running.frequents} ELSE {})
        \cup (IF running.fn = "rules" THEN {running.input} ELSE {})

\* apriori.py 100-102: rules = [], the iteration over the map begins
StartRules ==
    /\ CanStart
    /\ calls_left' = calls_left - 1
    /\ \E c \in Thresholds, input \in RuleInputs :
          /\ running' = Begin("rules", c, input)
          /\ keys_left' = ListOf(DOMAIN input)
    /\ rules' = <<>>
    /\ UNCHANGED <<transactions, min_support, supplied,
                   apriori_ret, eclat_ret, rules_ret, rules_eclat_ret,
                   Lk, k_level, frequents, Ck, support_counts, apriori_at,
                   vertical, stack, results, writes>>

\* apriori.py 102-128: one pass of the loop over the map's keys
RulesStep ==
    /\ running.fn = "rules"
    /\ running.status = "running"
    /\ keys_left # <<>>
    /\ rules' = rules_for_itemset(running.input, running.threshold,
                                  Head(keys_left), RulesReturned(rules)).rules
    /\ keys_left' = Tail(keys_left)
    /\ UNCHANGED <<transactions, min_support, supplied,
                   apriori_ret, eclat_ret, rules_ret, rules_eclat_ret,
                   calls_left, running, Lk, k_level, frequents,
                   Ck, support_counts, apriori_at,
                   vertical, stack, results, writes>>

\* apriori.py 129: every key was visited, rules is returned
RulesReturn ==
    /\ running.fn = "rules"
    /\ running.status = "running"
    /\ keys_left = <<>>
    /\ running' = Ended("ok", EmptyMap, rules)
    /\ rules' = <<>>
    /\ UNCHANGED <<transactions, min_support, supplied,
                   apriori_ret, eclat_ret, rules_ret, rules_eclat_ret,
                   calls_left, Lk, k_level, frequents,
                   Ck, support_counts, apriori_at,
                   vertical, stack, results, writes, keys_left>>

NextRun ==
    \/ StartApriori
    \/ AprioriCandidates
    \/ AprioriScan
    \/ AprioriFilter
    \/ AprioriReturn
    \/ StartEclat
    \/ EclatPop
    \/ EclatUnwind
    \/ EclatReturn
    \/ StartRules
    \/ RulesStep
    \/ RulesReturn

\* nothing was called yet and calls may be started
Fresh(calls) ==
    /\ min_support = Zero
    /\ apriori_ret = NotCalled
    /\ eclat_ret = NotCalled
    /\ rules_ret = RulesNotCalled
    /\ rules_eclat_ret = RulesNotCalled
    /\ calls_left = calls
    /\ running = NoCall
    /\ Lk = {}
    /\ k_level = 0
    /\ frequents = EmptyMap
    /\ Ck = {}
    /\ support_counts = EmptyMap
    /\ apriori_at = "none"
    /\ vertical = EmptyMap
    /\ stack = <<>>
    /\ results = EmptyMap
    /\ writes = EmptyMap
    /\ rules = <<>>
    /\ keys_left = <<>>

\* ----------------------- one call of an engine on a database (SpecRun)
InitRun ==
    /\ transactions \in Databases(RunTrans)
    /\ supplied = EmptyMap
    /\ Fresh(1)

NextEngine ==
    \/ StartApriori
    \/ AprioriCandidates
    \/ AprioriScan
    \/ AprioriFilter
    \/ AprioriReturn
    \/ StartEclat
    \/ EclatPop
    \/ EclatUnwind
    \/ EclatReturn

SpecRun == InitRun /\ [][NextEngine]_vars

\* a call that was entered runs on: the interpreter executes its next statement
SpecRunFair ==
    /\ InitRun
    /\ [][NextEngine]_vars
    /\ WF_vars(AprioriCandidates \/ AprioriScan
                   \/ AprioriFilter \/ AprioriReturn)
    /\ WF_vars(EclatPop \/ EclatUnwind \/ EclatReturn)

\* ------------- several calls, one after the other (SpecSession)
InitSession ==
    /\ transactions \in Databases(AgainTrans)
    /\ supplied = EmptyMap
    /\ Fresh(MaxCalls)

SpecSession == InitSession /\ [][NextRun]_vars

\* ------------------------------------------------------------ properties
\* brute-force recount: the transactions of T that are supersets of I
Supporters(T, I) == {t \in DOMAIN T : \A i \in I : i \in T[t]}

TrueSupport(T, I) == Rat(Cardinality(Supporters(T, I)), Len(T))

NonEmptyItemsets(U) == SUBSET U \ {{}}

EngineCalls == {apriori_ret, eclat_ret}

RuleCalls == {rules_ret, rules_eclat_ret}

HasEmptyTransaction == \E t \in DOMAIN transactions : transactions[t] = {}

\* C1: for a threshold in [0,1], once both engines have run on the database
\* their result maps are equal (same itemsets, same supports).
C1_CrossEngineEquivalence ==
    (/\ InUnit(min_support)
     /\ apriori_ret.status # "none"
     /\ eclat_ret.status # "none")
    => /\ apriori_ret.status = "ok"
       /\ eclat_ret.status = "ok"
       /\ apriori_ret.frequents = eclat_ret.frequents

\* C2: every itemset in the result of either engine carries the support
\* (transactions that are supersets of it) / |T|, empty transactions included.
C2_SupportCorrectness ==
    \A ret \in EngineCalls :
        ret.status = "ok" =>
            \A I \in DOMAIN ret.frequents :
                ret.frequents[I] = TrueSupport(transactions, I)

C2_Witness ==
    /\ HasEmptyTransaction
    /\ apriori_ret.status = "ok"
    /\ eclat_ret.status = "ok"
    /\ \E I \in DOMAIN apriori_ret.frequents :
          Cardinality(I) >= 2 /\ ~IsZero(apriori_ret.frequents[I])
    /\ \E I \in DOMAIN eclat_ret.frequents :
          /\ Cardinality(I) >= 2
          /\ Cardinality(Supporters(transactions, I)) < Len(transactions) - 1

\* every (|I|-1)-subset of a key with 2 or more items is a key, with a support
\* that is not smaller
DownwardClosed(f) ==
    \A I \in DOMAIN f :
        Cardinality(I) >= 2 =>
            \A x \in I : /\ (I \ {x}) \in DOMAIN f
                         /\ Geq(f[I \ {x}], f[I])

\* C3: in the result of either engine, every (|I|-1)-subset of a key I with
\* |I| >= 2 is a key too, with a support at least that of I.
C3_DownwardClosure ==
    \A ret \in EngineCalls : ret.status = "ok" => DownwardClosed(ret.frequents)

C3_Witness ==
    /\ apriori_ret.status = "ok"
    /\ eclat_ret.status = "ok"
    /\ \E I \in DOMAIN eclat_ret.frequents :
          /\ Cardinality(I) >= 3
          /\ \E x \in I : Gt(eclat_ret.frequents[I \ {x}], eclat_ret.frequents[I])
    /\ \E I \in DOMAIN apriori_ret.frequents :
          /\ Cardinality(I) >= 3
          /\ \E x \in I : Gt(apriori_ret.frequents[I \ {x}], apriori_ret.frequents[I])

\* C4: a threshold outside [0,1] makes the call end in InvalidThreshold,
\* with no result.
C4_InvalidThresholdReported ==
    /\ ~InUnit(min_support) =>
          \A ret \in EngineCalls :
              ret.status # "none" =>
                  ret.status = "InvalidThreshold" /\ ret.frequents = EmptyMap
    /\ \A call \in RuleCalls :
          (call.status # "none" /\ ~InUnit(call.min_confidence)) =>
              call.status = "InvalidThreshold" /\ call.rules = <<>>

\* C5: on a database without transactions and thresholds in [0,1], each
\* engine returns the empty map without raising, and the rule generator
\* returns the empty list on it.
C5_EmptyDatabase ==
    (Len(transactions) = 0 /\ InUnit(min_support)) =>
        /\ \A ret \in EngineCalls :
              ret.status # "none" => ret.status = "ok" /\ ret.frequents = EmptyMap
        /\ \A call \in RuleCalls :
              (call.status # "none" /\ InUnit(call.min_confidence)) =>
                  call.status = "ok" /\ call.rules = <<>>

C5_Witness ==
    /\ Len(transactions) = 0
    /\ InUnit(min_support)
    /\ InUnit(rules_ret.min_confidence)
    /\ InUnit(rules_eclat_ret.min_confidence)
    /\ apriori_ret.status = "ok"
    /\ eclat_ret.status = "ok"
    /\ rules_ret.status = "ok"
    /\ rules_eclat_ret.status = "ok"

\* the non-empty sets of occurring items that a recount finds frequent at s
FrequentAt(T, s) ==
    {I \in NonEmptyItemsets(OccurringItems(T)) : Geq(TrueSupport(T, I), s)}

\* C6: on a database with at least one transaction and a threshold s in
\* [0,1], apriori returns exactly the non-empty sets of occurring items whose
\* count / |T| is at least s (at s = 0: all of them, support 0 included).
C6_AprioriExact ==
    (/\ Len(transactions) >= 1
     /\ InUnit(min_support)
     /\ apriori_ret.status # "none")
    => /\ apriori_ret.status = "ok"
       /\ DOMAIN apriori_ret.frequents = FrequentAt(transactions, min_support)

C6_Witness ==
    /\ apriori_ret.status = "ok"
    /\ IsZero(min_support)
    /\ \E I \in DOMAIN apriori_ret.frequents :
          Cardinality(I) >= 2 /\ Supporters(transactions, I) = {}
    /\ \E I \in DOMAIN apriori_ret.frequents :
          Cardinality(I) >= 2 /\ Supporters(transactions, I) # {}

\* max(1, ceil(s * |T|)), the ceiling found by search
OccurrenceThreshold(T, s) ==
    LET exact == s.num * Len(T)
        ceiling == CHOOSE c \in 0..Len(T) :
                      c * s.den >= exact /\ (c - 1) * s.den < exact
    IN  IF ceiling >= 1 THEN ceiling ELSE 1

\* C7: for a threshold s in [0,1], eclat returns exactly the non-empty
\* itemsets contained in at least max(1, ceil(s * |T|)) transactions, so
\* never one contained in no transaction.
C7_EclatExact ==
    (InUnit(min_support) /\ eclat_ret.status # "none")
    => /\ eclat_ret.status = "ok"
       /\ DOMAIN eclat_ret.frequents =
             {I \in NonEmptyItemsets(Items) :
                 Cardinality(Supporters(transactions, I))
                     >= OccurrenceThreshold(transactions, min_support)}

C7_Witness ==
    /\ eclat_ret.status = "ok"
    /\ IsZero(min_support)
    /\ \E I \in NonEmptyItemsets(OccurringItems(transactions)) :
          Supporters(transactions, I) = {}
    /\ \E I \in DOMAIN eclat_ret.frequents : Cardinality(I) >= 2

\* the shape of one rule with respect to the map it was generated from
WellShaped(rule, frequent_itemsets) ==
    LET union == rule.antecedent \cup rule.consequent
    IN  /\ rule.antecedent # {}
        /\ rule.consequent # {}
        /\ rule.antecedent \cap rule.consequent = {}
        /\ Cardinality(union) >= 2
        /\ union \in DOMAIN frequent_itemsets
        /\ rule.support = frequent_itemsets[union]

\* C8: every returned rule has a non-empty antecedent and a non-empty
\* consequent that are disjoint, their union is a key of the supplied map
\* with at least 2 items, and the rule's support is the map's value there.
C8_RuleShape ==
    \A call \in RuleCalls :
        \A i \in DOMAIN call.rules : WellShaped(call.rules[i], call.frequent_itemsets)

C8_Witness ==
    /\ rules_ret.status = "ok"
    /\ Len(rules_ret.rules) >= 2
    /\ \E i \in DOMAIN rules_ret.rules : Cardinality(rules_ret.rules[i].antecedent) >= 2
    /\ ~DownwardClosed(supplied)

\* C9: a rule generated from the result of either engine, with both
\* thresholds in [0,1], has 0 < confidence <= 1 and lift >= 0.
C9_RuleMetricRanges ==
    InUnit(min_support) =>
        \A call \in {c \in RuleCalls : InUnit(c.min_confidence)} :
            \A i \in DOMAIN call.rules :
                /\ Gt(call.rules[i].confidence, Zero)
                /\ Geq(One, call.rules[i].confidence)
                /\ Geq(call.rules[i].lift, Zero)

\* the rules a map R yields at the threshold c, as a set
Present(R, A) == A \in DOMAIN R /\ R[A].num # 0

Splits(R) ==
    {<<I, A>> \in (DOMAIN R) \X (SUBSET Items) :
        /\ Cardinality(I) >= 2
        /\ A # {} /\ A \subseteq I /\ A # I
        /\ Present(R, A)
        /\ Present(R, I \ A)}

ExpectedRules(R, c) ==
    {[antecedent |-> sp[2],
      consequent |-> sp[1] \ sp[2],
      support    |-> R[sp[1]],
      confidence |-> Quot(R[sp[1]], R[sp[2]]),
      lift       |-> Quot(Quot(R[sp[1]], R[sp[2]]), R[sp[1] \ sp[2]])] :
        sp \in {x \in Splits(R) : Geq(Quot(R[x[1]], R[x[2]]), c)}}

ExactRules(call, c) ==
    /\ call.status = "ok"
    /\ Range(call.rules) = ExpectedRules(call.frequent_itemsets, c)
    /\ \A i, j \in DOMAIN call.rules : call.rules[i] = call.rules[j] => i = j

C11_Monotonicity ==
    /\ apriori_ret.status = "ok" =>
          \A t \in Thresholds : Geq(t, min_support) =>
              LET above == apriori(transactions, t)
              IN  /\ above.status = "ok"
                  /\ Cardinality(DOMAIN above.frequents)
                        <= Cardinality(DOMAIN apriori_ret.frequents)
    /\ eclat_ret.status = "ok" =>
          \A order \in VerticalOrders(transactions) :
              \A t \in Thresholds : Geq(t, min_support) =>
                  LET above == eclat(transactions, t, order)
                  IN  /\ above.status = "ok"
                      /\ Cardinality(DOMAIN above.frequents)
                            <= Cardinality(DOMAIN eclat_ret.frequents)
    /\ \A call \in RuleCalls : call.status = "ok" =>
          \A t \in Thresholds : Geq(t, call.min_confidence) =>
              LET above == generate_association_rules(call.frequent_itemsets, t)
              IN  /\ above.status = "ok"
                  /\ Len(above.rules) <= Len(call.rules)

\* both engines and the rule generator have returned something that a higher
\* threshold cuts down without emptying it
C11_Witness ==
    /\ apriori_ret.status = "ok"
    /\ eclat_ret.status = "ok"
    /\ rules_ret.status = "ok"
    /\ \E t \in Thresholds :
          /\ Gt(t, min_support)
          /\ LET above == DOMAIN apriori(transactions, t).frequents
             IN  above # {} /\ Cardinality(above) < Cardinality(DOMAIN apriori_ret.frequents)
          /\ \E order \in VerticalOrders(transactions) :
                LET above == DOMAIN eclat(transactions, t, order).frequents
                IN  above # {} /\ Cardinality(above) < Cardinality(DOMAIN eclat_ret.frequents)
    /\ \E t \in Thresholds :
          /\ Gt(t, rules_ret.min_confidence)
          /\ LET above == generate_association_rules(rules_ret.frequent_itemsets, t).rules
             IN  above # <<>> /\ Len(above) < Len(rules_ret.rules)

\* the call that was followed has ended
HasEnded == running.status \notin {"none", "running"}

\* C12: whatever was called before, a call that ends returns what a call with
\* the same arguments returns when nothing was called before it: the map
\* apriori(T, s) or eclat(T, s), or the list generate_association_rules(R, c).
C12_Idempotence ==
    HasEnded =>
        /\ running.fn = "apriori" =>
              LET alone == apriori(transactions, running.threshold)
              IN  /\ running.status = alone.status
                  /\ running.frequents = alone.frequents
        /\ running.fn = "eclat" =>
              \A order \in VerticalOrders(transactions) :
                  LET alone == eclat(transactions, running.threshold, order)
                  IN  /\ running.status = alone.status
                      /\ running.frequents = alone.frequents
        /\ running.fn = "rules" =>
              LET alone == generate_association_rules(running.input, running.threshold)
              IN  /\ running.status = alone.status
                  /\ running.rules = alone.rules

\* the last call of a session, a call of apriori, has returned another set of
\* itemsets than an earlier call of eclat had recorded
C12_Witness ==
    /\ HasEnded
    /\ calls_left = 0
    /\ running.fn = "apriori"
    /\ running.status = "ok"
    /\ writes # EmptyMap
    /\ DOMAIN running.frequents # DOMAIN writes

\* C13: no step of a call changes the caller's database or a map of the
\* caller, the map handed to the rule generator included; a step of the Eclat
\* recursion shortens the working list of the innermost activation only, and
\* leaves the vertical index and the lists of the calling activations alone.
C13_InputsReadOnly ==
    [][/\ transactions' = transactions
       /\ supplied' = supplied
       /\ running.status = "running" =>
             /\ running'.input = running.input
             /\ running'.status = "running" => vertical' = vertical
             /\ \A i \in 1..(Len(stack) - 1) :
                   i <= Len(stack') => stack'[i].items_tids = stack[i].items_tids]_vars

\* a session on a database with items has ended with a call that made rules
\* of a result, after eclat had emptied its working lists
C13_Witness ==
    /\ HasEnded
    /\ calls_left = 0
    /\ running.fn = "rules"
    /\ running.input # EmptyMap
    /\ running.rules # <<>>
    /\ writes # EmptyMap
    /\ \E tid \in DOMAIN transactions : Cardinality(transactions[tid]) >= 2

\* a call of an engine with a threshold in [0,1] is in progress
EngineEntered ==
    /\ running.fn \in {"apriori", "eclat"}
    /\ running.status = "running"
    /\ InUnit(running.threshold)

\* the call has returned, with every activation of the recursion left
EngineReturned ==
    /\ running.status = "ok"
    /\ stack = <<>>

\* C14: a call of apriori or eclat with a threshold in [0,1], 0 included,
\* returns: the level loop of apriori finds its level empty at the latest when
\* the itemsets would be larger than the number of distinct items, and the
\* Eclat recursion empties every working list.
C14_Termination ==
    /\ [](running.fn = "apriori" /\ running.status = "running" =>
            LET distinct == Cardinality(OccurringItems(transactions))
            IN  /\ k_level <= distinct + 2
                /\ Lk # {} => k_level <= distinct + 1)
    /\ (EngineEntered ~> EngineReturned)

\* apriori at the threshold 0 has gone through every level of a database with
\* three or more distinct items and is about to return
C14_Witness ==
    /\ running.fn = "apriori"
    /\ running.status = "running"
    /\ IsZero(running.threshold)
    /\ Lk = {}
    /\ Cardinality(OccurringItems(transactions)) >= 3
    /\ k_level = Cardinality(OccurringItems(transactions)) + 2

\* every order in which the pairs of the index of T can stand in a list
AnyOrders(T) ==
    LET its == OccurringItems(T)
        n == Cardinality(its)
    IN  {o \in [1..n -> its] : \A i, j \in 1..n : i # j => o[i] # o[j]}

\* C15: whatever the order of the pairs in the first working list, which
\* fixes the order of the branches, eclat returns the same map, and during
\* the search every itemset of the map is recorded once, by one branch.
C15_OrderIndependence ==
    /\ \A I \in DOMAIN writes : writes[I] = 1
    /\ (running.fn = "eclat" /\ running.status = "ok") =>
          /\ DOMAIN writes = DOMAIN running.frequents
          /\ \A order \in AnyOrders(transactions) :
                LET other == eclat(transactions, running.threshold, order)
                IN  other.status = "ok" /\ other.frequents = running.frequents

\* eclat has returned pairs and larger itemsets of a database whose index can
\* be listed in several orders and has an item that is not frequent
C15_Witness ==
    /\ running.fn = "eclat"
    /\ running.status = "ok"
    /\ Cardinality(VerticalOrders(transactions)) >= 2
    /\ Cardinality(DOMAIN running.frequents) >= 3
    /\ \E I \in DOMAIN running.frequents : Cardinality(I) >= 2
    /\ \E item \in OccurringItems(transactions) : {item} \notin DOMAIN running.frequents

====
